---------------------------- MODULE Spec2Model ----------------------------
(***************************************************************************)
(* Emoji ID codec of base_layer/common_types/src/emoji.rs.                 *)
(*                                                                         *)
(* A char is its Unicode scalar value, a String/&str is its sequence of    *)
(* UTF-8 bytes, a Vec<u8> is a sequence of 0..255, a HashMap<char, u8> is  *)
(* a function whose domain is its key set.  Rust indexes from 0 and TLA+   *)
(* sequences from 1, so BYTE_TO_EMOJI[b as usize] reads BYTE_TO_EMOJI[b+1].*)
(*                                                                         *)
(* The emojibet literal is stored in emoji.rs with its UTF-8 bytes read as *)
(* Windows-1254 and the seven byte values that code page leaves undefined  *)
(* (81, 8D, 8E, 8F, 90, 9D, 9E hex) dropped.  121 of the 256 entries keep  *)
(* all their bytes and are decoded from the file; the other 135 are the    *)
(* glyphs of the upstream emojibet, each of which re-encodes to exactly    *)
(* the bytes that survive in the file at that index.                       *)
(***************************************************************************)
EXTENDS Integers, Sequences, FiniteSets, TLC

VARIABLES
    cell,           \* state of the Lazy behind EMOJI_TO_BYTE
    EMOJI_TO_BYTE,  \* the value the Lazy holds once it is complete
    init_count,     \* how many times the Lazy's closure has been entered
    input,          \* what the caller passes in: [kind, val]
    pc,             \* position of the sequential caller
    emoji_id,       \* Option<EmojiId> held by the sequential caller
    rendered,       \* Option<String> returned by to_string
    result,         \* Option<Result<EmojiId, EmojiIdError>> of from_str
    history,        \* what the process has done before the current call
    tpc,            \* per thread: position inside from_str
    ts,             \* per thread: the chars of the argument s
    tpos,           \* per thread: index of the char the for loop is at
    tbytes,         \* per thread: the local Vec<u8> bytes
    tresult,        \* per thread: Option<Result<..>> returned
    m,              \* per thread: the closure's local HashMap m
    mi              \* per thread: the closure's enumerate() index i

vars == << cell, EMOJI_TO_BYTE, init_count, input, pc, emoji_id, rendered,
           result, history, tpc, ts, tpos, tbytes, tresult, m, mi >>

seqvars == << input, pc, emoji_id, rendered, result, history >>
thrvars == << tpc, ts, tpos, tbytes, tresult, m, mi >>

-----------------------------------------------------------------------------
(* Bounds of the model *)

MaxLen == 3         \* longest sampled byte / glyph sequence, sequential caller
MaxConcLen == 1     \* longest glyph sequence decoded by a thread
NumThreads == 2     \* threads calling from_str concurrently

-----------------------------------------------------------------------------
(* Program constants *)

DICT_SIZE == 256
u8_MAX == 255

(* The emojibet, mapping byte values to emoji characters *)

BYTE_TO_EMOJI_dup ==
    << 129419, 128223, 127752, 127754, 127919, 128011, 127769, 129300, 127765, 11088, 128011, 127792, 127796, 127797, 127794, 127800, 127801, 127803, 127805,
       127808, 127809, 127812, 129361, 127814, 127815, 127816, 127817, 127818, 127819, 127820, 127821, 127822, 127824, 127825, 127826, 127827, 127828, 127829,
       127831, 127834, 127838, 127839, 129373, 127843, 127846, 127849, 127850, 127851, 127852, 127853, 127855, 129360, 127859, 129348, 127861, 127862, 127863,
       127864, 127870, 127866, 127868, 127872, 127873, 127874, 127875, 129302, 127880, 127881, 127890, 127891, 127904, 127905, 127906, 127907, 127908, 127909,
       127911, 127912, 127913, 127914, 127916, 127917, 127918, 127920, 127921, 127922, 127923, 127925, 127927, 127928, 127929, 127930, 127931, 127932, 127933,
       127934, 127935, 127936, 127937, 127942, 127944, 9917, 127968, 127973, 127974, 127981, 127984, 128000, 128009, 128010, 128012, 128013, 129409, 128016,
       128017, 128020, 128584, 128023, 128024, 128025, 128026, 128027, 128028, 128029, 128030, 128034, 128035, 128040, 129408, 128042, 128044, 128045, 128046,
       128047, 128048, 129414, 129410, 128052, 128053, 128054, 128055, 128056, 128058, 128059, 128060, 128061, 128062, 128064, 128069, 128081, 128082, 129506,
       128133, 128085, 128086, 128087, 128088, 128089, 128131, 128091, 128094, 128095, 128096, 129354, 128098, 128099, 129313, 128123, 128125, 128126, 129312,
       128067, 128132, 128136, 128137, 128138, 128139, 128066, 128141, 128142, 128144, 128148, 128274, 129513, 128161, 128163, 128164, 128166, 128168, 128169,
       10133, 128175, 128176, 128179, 128181, 128186, 128187, 128188, 128200, 128220, 128204, 128206, 128214, 128255, 128225, 9200, 128241, 128247, 128267,
       128268, 128688, 128273, 128276, 128293, 128294, 128295, 128296, 128297, 128298, 128299, 128300, 128301, 128302, 128305, 128509, 128514, 128519, 128520,
       129297, 128525, 128526, 128561, 128567, 129314, 128077, 128118, 128640, 128641, 128642, 128666, 128657, 128658, 128659, 128757, 128663, 128668, 128674,
       128678, 128679, 128680, 128682, 128683, 128690, 128701, 128703, 129522 >>

BYTE_TO_EMOJI ==
    << 129419, 128223, 127752, 127754, 127919, 128011, 127769, 129300, 127765, 11088, 127883, 127792, 127796, 127797, 127794, 127800, 127801, 127803, 127805,
       127808, 127809, 127812, 129361, 127814, 127815, 127816, 127817, 127818, 127819, 127820, 127821, 127822, 127824, 127825, 127826, 127827, 127828, 127829,
       127831, 127834, 127838, 127839, 129373, 127843, 127846, 127849, 127850, 127851, 127852, 127853, 127855, 129360, 127859, 129348, 127861, 127862, 127863,
       127864, 127870, 127866, 127868, 127872, 127873, 127874, 127875, 129302, 127880, 127881, 127890, 127891, 127904, 127905, 127906, 127907, 127908, 127909,
       127911, 127912, 127913, 127914, 127916, 127917, 127918, 127920, 127921, 127922, 127923, 127925, 127927, 127928, 127929, 127930, 127931, 127932, 127933,
       127934, 127935, 127936, 127937, 127942, 127944, 9917, 127968, 127973, 127974, 127981, 127984, 128000, 128009, 128010, 128012, 128013, 129409, 128016,
       128017, 128020, 128584, 128023, 128024, 128025, 128026, 128027, 128028, 128029, 128030, 128034, 128035, 128040, 129408, 128042, 128044, 128045, 128046,
       128047, 128048, 129414, 129410, 128052, 128053, 128054, 128055, 128056, 128058, 128059, 128060, 128061, 128062, 128064, 128069, 128081, 128082, 129506,
       128133, 128085, 128086, 128087, 128088, 128089, 128131, 128091, 128094, 128095, 128096, 129354, 128098, 128099, 129313, 128123, 128125, 128126, 129312,
       128067, 128132, 128136, 128137, 128138, 128139, 128066, 128141, 128142, 128144, 128148, 128274, 129513, 128161, 128163, 128164, 128166, 128168, 128169,
       10133, 128175, 128176, 128179, 128181, 128186, 128187, 128188, 128200, 128220, 128204, 128206, 128214, 128255, 128225, 9200, 128241, 128247, 128267,
       128268, 128688, 128273, 128276, 128293, 128294, 128295, 128296, 128297, 128298, 128299, 128300, 128301, 128302, 128305, 128509, 128514, 128519, 128520,
       129297, 128525, 128526, 128561, 128567, 129314, 128077, 128118, 128640, 128641, 128642, 128666, 128657, 128658, 128659, 128757, 128663, 128668, 128674,
       128678, 128679, 128680, 128682, 128683, 128690, 128701, 128703, 129522 >>

-----------------------------------------------------------------------------
(* Option and Result values *)

None == << >>
Some(v) == << v >>

InvalidEmoji == "InvalidEmoji"
Ok(id) == [tag |-> "Ok", id |-> id, err |-> ""]
Err(e) == [tag |-> "Err", id |-> [bytes |-> << >>], err |-> e]

-----------------------------------------------------------------------------
(* String: UTF-8 encoding of chars, and the chars() iterator *)

utf8(c) ==
    IF c < 128 THEN << c >>
    ELSE IF c < 2048 THEN << 192 + (c \div 64), 128 + (c % 64) >>
    ELSE IF c < 65536 THEN
        << 224 + (c \div 4096), 128 + ((c \div 64) % 64), 128 + (c % 64) >>
    ELSE << 240 + (c \div 262144), 128 + ((c \div 4096) % 64),
            128 + ((c \div 64) % 64), 128 + (c % 64) >>

\* The ranges of collect_String, chars, for_each and from_str_loop are
\* walked in index order; they are split in halves only to keep the
\* evaluation shallow.
RECURSIVE collect_String(_)
collect_String(cs) ==
    IF cs = << >> THEN << >>
    ELSE IF Len(cs) = 1 THEN utf8(cs[1])
    ELSE LET mid == Len(cs) \div 2
         IN  collect_String(SubSeq(cs, 1, mid))
                 \o collect_String(SubSeq(cs, mid + 1, Len(cs)))

utf8_width(b) ==
    IF b < 128 THEN 1 ELSE IF b < 224 THEN 2 ELSE IF b < 240 THEN 3 ELSE 4

utf8_char(s) ==
    LET b == s[1]
        w == utf8_width(b)
    IN  IF w = 1 THEN b
        ELSE IF w = 2 THEN (b - 192) * 64 + (s[2] - 128)
        ELSE IF w = 3 THEN
            (b - 224) * 4096 + (s[2] - 128) * 64 + (s[3] - 128)
        ELSE (b - 240) * 262144 + (s[2] - 128) * 4096
                 + (s[3] - 128) * 64 + (s[4] - 128)

is_char_boundary(s, p) == p > Len(s) \/ s[p] < 128 \/ s[p] >= 192

next_char_boundary(s, p) ==
    IF is_char_boundary(s, p) THEN p
    ELSE IF is_char_boundary(s, p + 1) THEN p + 1
    ELSE IF is_char_boundary(s, p + 2) THEN p + 2
    ELSE p + 3

RECURSIVE chars(_)
chars(s) ==
    IF s = << >> THEN << >>
    ELSE IF utf8_width(s[1]) >= Len(s) THEN << utf8_char(s) >>
    ELSE LET half == next_char_boundary(s, (Len(s) \div 2) + 1)
             mid == IF half > Len(s) THEN utf8_width(s[1]) + 1 ELSE half
         IN  chars(SubSeq(s, 1, mid - 1)) \o chars(SubSeq(s, mid, Len(s)))

-----------------------------------------------------------------------------
(* HashMap<char, u8> *)

HashMap_with_capacity == << >>

insert(map, k, v) == (k :> v) @@ map

get_default(map, k) == IF k \in DOMAIN map THEN Some(map[k]) ELSE Some(0)

get(map, k) == IF k \in DOMAIN map THEN Some(map[k]) ELSE None

-----------------------------------------------------------------------------
(* EMOJI_TO_BYTE: the closure handed to Lazy::new, and Lazy's deref *)

u8_try_from(i) == IF i <= u8_MAX THEN Some(i) ELSE None
expect(o) == o[1]

closure_step_shifted(st, i) ==
    IF st.panicked THEN st
    ELSE LET b == u8_try_from((i + 1) % DICT_SIZE)
         IN  IF b = None THEN [st EXCEPT !.panicked = TRUE]
             ELSE [st EXCEPT !.m = insert(@, BYTE_TO_EMOJI[i + 1], b[1])]

\* One turn of the for_each: m.insert(*c, u8::try_from(i).expect(..))
closure_step(st, i) ==
    IF st.panicked THEN st
    ELSE LET b == u8_try_from(i)
         IN  IF b = None THEN [st EXCEPT !.panicked = TRUE]
             ELSE [st EXCEPT !.m = insert(@, BYTE_TO_EMOJI[i + 1], b[1])]

RECURSIVE for_each(_, _, _)
for_each(st, lo, hi) ==
    IF st.panicked \/ lo >= hi THEN st
    ELSE IF hi = lo + 1 THEN closure_step(st, lo)
    ELSE LET mid == (lo + hi) \div 2
         IN  for_each(for_each(st, lo, mid), mid, hi)

closure ==
    for_each([m |-> HashMap_with_capacity, panicked |-> FALSE],
             0, Len(BYTE_TO_EMOJI)).m

force_unbuilt(c, value) == IF c = "complete" THEN value ELSE HashMap_with_capacity

force(c, value) == IF c = "complete" THEN value ELSE closure

-----------------------------------------------------------------------------
(* EmojiId: From<Vec<u8>>, From<&[u8]>, as_bytes, Display, FromStr *)

From(value) == [bytes |-> value]

as_bytes(self) == self.bytes

RECURSIVE map_glyphs_skip0(_)
map_glyphs_skip0(bs) ==
    IF bs = << >> THEN << >>
    ELSE IF Head(bs) = 0 THEN map_glyphs_skip0(Tail(bs))
    ELSE << BYTE_TO_EMOJI[Head(bs) + 1] >> \o map_glyphs_skip0(Tail(bs))

to_string_skip0(self) == collect_String(map_glyphs_skip0(self.bytes))

to_string_shifted(self) ==
    collect_String([k \in 1..Len(self.bytes) |->
                        BYTE_TO_EMOJI[((self.bytes[k] + 1) % DICT_SIZE) + 1]])

to_string(self) ==
    collect_String([k \in 1..Len(self.bytes) |->
                        BYTE_TO_EMOJI[self.bytes[k] + 1]])

\* The state of from_str's for loop: the Vec bytes, and whether the loop
\* has left through `return Err(..)`
for_body_skip(st, c, map) ==
    IF st.returned THEN st
    ELSE LET i == get(map, c)
         IN  IF i # None THEN [st EXCEPT !.bytes = Append(@, i[1])]
             ELSE st

for_body_partial(st, c, map) ==
    IF st.returned THEN st
    ELSE LET i == get(map, c)
         IN  IF i # None THEN [st EXCEPT !.bytes = Append(@, i[1])]
             ELSE [st EXCEPT !.returned = TRUE, !.value = Ok([bytes |-> st.bytes])]

for_body(st, c, map) ==
    IF st.returned THEN st
    ELSE LET i == get(map, c)
         IN  IF i # None THEN [st EXCEPT !.bytes = Append(@, i[1])]
             ELSE [st EXCEPT !.returned = TRUE, !.value = Err(InvalidEmoji)]

RECURSIVE from_str_loop(_, _, _)
from_str_loop(st, cs, map) ==
    IF st.returned \/ cs = << >> THEN st
    ELSE IF Len(cs) = 1 THEN for_body(st, cs[1], map)
    ELSE LET mid == Len(cs) \div 2
         IN  from_str_loop(from_str_loop(st, SubSeq(cs, 1, mid), map),
                           SubSeq(cs, mid + 1, Len(cs)), map)

from_str_start == [bytes |-> << >>, returned |-> FALSE, value |-> Ok([bytes |-> << >>])]

from_str_nonempty(s, map) ==
    LET st == from_str_loop(from_str_start, chars(s), map)
    IN  IF st.returned \/ st.bytes = << >> THEN Err(InvalidEmoji)
        ELSE Ok([bytes |-> st.bytes])

from_str(s, map) ==
    LET st == from_str_loop(from_str_start, chars(s), map)
    IN  IF st.returned THEN st.value ELSE Ok([bytes |-> st.bytes])

-----------------------------------------------------------------------------
(* Inputs of the sequential caller *)

SampleBytes == {0, 9, 255}
Foreign == {65, 127877}
Alphabet == {BYTE_TO_EMOJI[k] : k \in DOMAIN BYTE_TO_EMOJI}
SampleChars == {BYTE_TO_EMOJI[b + 1] : b \in SampleBytes} \cup Foreign

SeqsUpTo(S, n) == UNION {[1..k -> S] : k \in 0..n}

AllBytes == [k \in 1..(u8_MAX + 1) |-> k - 1]
CanonicalString == collect_String(BYTE_TO_EMOJI)

ByteInputs ==
    SeqsUpTo(SampleBytes, MaxLen) \cup {<< b >> : b \in 0..u8_MAX}
        \cup {AllBytes}

StrInputs ==
    {collect_String(cs) : cs \in SeqsUpTo(SampleChars, MaxLen)}
        \cup {utf8(c) : c \in Alphabet} \cup {CanonicalString}

Inputs ==
    {[kind |-> "bytes", val |-> B] : B \in ByteInputs}
        \cup {[kind |-> "str", val |-> S] : S \in StrInputs}

-----------------------------------------------------------------------------
(* The sequential caller: bytes -> EmojiId -> String -> EmojiId, and       *)
(* String -> EmojiId -> String, call after call in one process             *)

Threads == 1..NumThreads

ThreadsIdle ==
    /\ tpc = [t \in Threads |-> "idle"]
    /\ ts = [t \in Threads |-> << >>]
    /\ tpos = [t \in Threads |-> 1]
    /\ tbytes = [t \in Threads |-> << >>]
    /\ tresult = [t \in Threads |-> None]
    /\ m = [t \in Threads |-> HashMap_with_capacity]
    /\ mi = [t \in Threads |-> 0]

LazyNew ==
    /\ cell = "incomplete"
    /\ EMOJI_TO_BYTE = HashMap_with_capacity
    /\ init_count = 0

Init ==
    /\ LazyNew
    /\ ThreadsIdle
    /\ input \in Inputs
    /\ pc = "start"
    /\ emoji_id = None
    /\ rendered = None
    /\ result = None
    /\ history = "fresh"

\* EmojiId::from(bytes)
FromBytes ==
    /\ pc = "start"
    /\ input.kind = "bytes"
    /\ emoji_id' = Some(From(input.val))
    /\ pc' = "built"
    /\ UNCHANGED << cell, EMOJI_TO_BYTE, init_count, input, rendered, result,
                    history >>
    /\ UNCHANGED thrvars

\* emoji_id.to_string()
Display ==
    /\ pc = "built"
    /\ rendered' = Some(to_string(emoji_id[1]))
    /\ pc' = IF input.kind = "bytes" THEN "shown" ELSE "done"
    /\ UNCHANGED << cell, EMOJI_TO_BYTE, init_count, input, emoji_id, result,
                    history >>
    /\ UNCHANGED thrvars

\* The &str handed to from_str: the rendering, or the caller's own string
FromStrArg == IF input.kind = "bytes" THEN rendered[1] ELSE input.val

\* EmojiId::from_str(s); the first lookup forces the Lazy
FromStr ==
    /\ \/ input.kind = "bytes" /\ pc = "shown"
       \/ input.kind = "str" /\ pc = "start"
    /\ LET s == FromStrArg
           touched == chars(s) # << >>
           map == force(cell, EMOJI_TO_BYTE)
           r == from_str(s, map)
       IN  /\ result' = Some(r)
           /\ cell' = IF touched THEN "complete" ELSE cell
           /\ EMOJI_TO_BYTE' = IF touched THEN map ELSE EMOJI_TO_BYTE
           /\ init_count' = IF touched /\ cell # "complete"
                            THEN init_count + 1 ELSE init_count
           /\ IF input.kind = "str" /\ r.tag = "Ok"
              THEN emoji_id' = Some(r.id) /\ pc' = "built"
              ELSE emoji_id' = emoji_id /\ pc' = "done"
    /\ UNCHANGED << input, rendered, history >>
    /\ UNCHANGED thrvars

\* The caller goes on to its next call; the process and its Lazy live on
NextCall ==
    /\ pc = "done"
    /\ input' \in Inputs
    /\ pc' = "start"
    /\ emoji_id' = None
    /\ rendered' = None
    /\ result' = None
    /\ history' = IF result[1].tag = "Err" THEN "after_err" ELSE "after_ok"
    /\ UNCHANGED << cell, EMOJI_TO_BYTE, init_count >>
    /\ UNCHANGED thrvars

Next == FromBytes \/ Display \/ FromStr \/ NextCall

Spec == Init /\ [][Next]_vars

-----------------------------------------------------------------------------
(* Threads calling from_str concurrently, one step of its code at a time   *)

ConcStrings ==
    {collect_String(cs) : cs \in SeqsUpTo(SampleChars, MaxConcLen)}

InitConc ==
    /\ LazyNew
    /\ ThreadsIdle
    /\ input = [kind |-> "str", val |-> << >>]
    /\ pc = "start"
    /\ emoji_id = None
    /\ rendered = None
    /\ result = None
    /\ history = "fresh"

\* from_str(s): let mut bytes = Vec::with_capacity(..); s.chars()
Call(t, s) ==
    /\ tpc[t] = "idle"
    /\ ts' = [ts EXCEPT ![t] = chars(s)]
    /\ tpos' = [tpos EXCEPT ![t] = 1]
    /\ tbytes' = [tbytes EXCEPT ![t] = << >>]
    /\ tresult' = [tresult EXCEPT ![t] = None]
    /\ tpc' = [tpc EXCEPT ![t] = "for"]
    /\ UNCHANGED << cell, EMOJI_TO_BYTE, init_count, m, mi >>
    /\ UNCHANGED seqvars

\* for c in s.chars(): the next char, or Ok(Self { bytes }) at the end
For(t) ==
    /\ tpc[t] = "for"
    /\ IF tpos[t] > Len(ts[t])
       THEN /\ tresult' = [tresult EXCEPT ![t] = Some(Ok([bytes |-> tbytes[t]]))]
            /\ tpc' = [tpc EXCEPT ![t] = "done"]
       ELSE /\ tresult' = tresult
            /\ tpc' = [tpc EXCEPT ![t] = "deref"]
    /\ UNCHANGED << cell, EMOJI_TO_BYTE, init_count, ts, tpos, tbytes, m, mi >>
    /\ UNCHANGED seqvars

\* Lazy: the thread that finds the cell incomplete runs the closure
NeedsInit_racy == cell # "complete"

NeedsInit == cell = "incomplete"

\* Lazy: a thread reads the value only once the cell is complete, and
\* waits while another thread runs the closure
IsReady == cell = "complete"

\* EMOJI_TO_BYTE deref, value present
DerefReady(t) ==
    /\ tpc[t] = "deref"
    /\ IsReady
    /\ tpc' = [tpc EXCEPT ![t] = "get"]
    /\ UNCHANGED << cell, EMOJI_TO_BYTE, init_count, ts, tpos, tbytes,
                    tresult, m, mi >>
    /\ UNCHANGED seqvars

\* EMOJI_TO_BYTE deref, first access: let mut m = HashMap::with_capacity(..)
DerefInit(t) ==
    /\ tpc[t] = "deref"
    /\ NeedsInit
    /\ cell' = "running"
    /\ init_count' = init_count + 1
    /\ m' = [m EXCEPT ![t] = HashMap_with_capacity]
    /\ mi' = [mi EXCEPT ![t] = 0]
    /\ tpc' = [tpc EXCEPT ![t] = "init"]
    /\ UNCHANGED << EMOJI_TO_BYTE, ts, tpos, tbytes, tresult >>
    /\ UNCHANGED seqvars

\* One turn of BYTE_TO_EMOJI.iter().enumerate().for_each(..)
InitStep(t) ==
    /\ tpc[t] = "init"
    /\ mi[t] < Len(BYTE_TO_EMOJI)
    /\ LET st == closure_step([m |-> m[t], panicked |-> FALSE], mi[t])
       IN  /\ ~st.panicked
           /\ m' = [m EXCEPT ![t] = st.m]
    /\ mi' = [mi EXCEPT ![t] = @ + 1]
    /\ UNCHANGED << cell, EMOJI_TO_BYTE, init_count, tpc, ts, tpos, tbytes,
                    tresult >>
    /\ UNCHANGED seqvars

\* The closure returns m; Lazy stores it and marks the cell complete
InitDone(t) ==
    /\ tpc[t] = "init"
    /\ mi[t] = Len(BYTE_TO_EMOJI)
    /\ EMOJI_TO_BYTE' = m[t]
    /\ cell' = "complete"
    /\ m' = [m EXCEPT ![t] = HashMap_with_capacity]
    /\ mi' = [mi EXCEPT ![t] = 0]
    /\ tpc' = [tpc EXCEPT ![t] = "get"]
    /\ UNCHANGED << init_count, ts, tpos, tbytes, tresult >>
    /\ UNCHANGED seqvars

\* if let Some(i) = EMOJI_TO_BYTE.get(&c) { bytes.push(*i) } else { return Err }
Get(t) ==
    /\ tpc[t] = "get"
    /\ LET st == for_body([bytes |-> tbytes[t], returned |-> FALSE,
                           value |-> Ok([bytes |-> << >>])],
                          ts[t][tpos[t]], EMOJI_TO_BYTE)
       IN  IF st.returned
           THEN /\ tresult' = [tresult EXCEPT ![t] = Some(st.value)]
                /\ tpc' = [tpc EXCEPT ![t] = "done"]
                /\ UNCHANGED << tbytes, tpos >>
           ELSE /\ tbytes' = [tbytes EXCEPT ![t] = st.bytes]
                /\ tpos' = [tpos EXCEPT ![t] = @ + 1]
                /\ tpc' = [tpc EXCEPT ![t] = "for"]
                /\ UNCHANGED tresult
    /\ UNCHANGED << cell, EMOJI_TO_BYTE, init_count, ts, m, mi >>
    /\ UNCHANGED seqvars

\* The caller takes the Result; the thread is free for its next call
Return(t) ==
    /\ tpc[t] = "done"
    /\ tpc' = [tpc EXCEPT ![t] = "idle"]
    /\ ts' = [ts EXCEPT ![t] = << >>]
    /\ tpos' = [tpos EXCEPT ![t] = 1]
    /\ tbytes' = [tbytes EXCEPT ![t] = << >>]
    /\ tresult' = [tresult EXCEPT ![t] = None]
    /\ UNCHANGED << cell, EMOJI_TO_BYTE, init_count, m, mi >>
    /\ UNCHANGED seqvars

NextConc ==
    \E t \in Threads :
        \/ \E s \in ConcStrings : Call(t, s)
        \/ For(t)
        \/ DerefReady(t)
        \/ DerefInit(t)
        \/ InitStep(t)
        \/ InitDone(t)
        \/ Get(t)
        \/ Return(t)

SpecConc == InitConc /\ [][NextConc]_vars

-----------------------------------------------------------------------------
(* Properties *)

\* as_bytes of the Ok value of a from_str result
ResultBytes == as_bytes(result[1].id)

HasForeign(cs) == \E k \in DOMAIN cs : cs[k] \notin Alphabet

\* C1: bytes -> EmojiId -> to_string -> from_str succeeds and gives back an
\* EmojiId whose as_bytes() is the original byte sequence, for every byte
\* sequence, the empty one and ones with repeated bytes included.
C1_RoundTripBytes ==
    (input.kind = "bytes" /\ pc = "done") =>
        /\ result # None
        /\ result[1].tag = "Ok"
        /\ ResultBytes = input.val

C1_Witness ==
    /\ input.kind = "bytes"
    /\ pc = "done"
    /\ Len(input.val) >= 2
    /\ input.val[1] = input.val[2]
    /\ result[1].tag = "Ok"

\* C2: a string with a char outside the emojibet, wherever it stands, makes
\* from_str return Err(InvalidEmoji): never Ok with the bytes decoded so far,
\* never Ok with some byte put in place of the foreign char.
C2_ForeignRejected ==
    (input.kind = "str" /\ result # None /\ HasForeign(chars(input.val))) =>
        /\ result[1].tag = "Err"
        /\ result[1] = Err(InvalidEmoji)

C2_Witness ==
    /\ input.kind = "str"
    /\ result # None
    /\ LET cs == chars(input.val)
       IN  /\ Len(cs) = 3
           /\ cs[1] \in Alphabet
           /\ cs[2] \in Alphabet
           /\ cs[3] \in Foreign
    /\ result[1] = Err(InvalidEmoji)

\* C3: whenever from_str(S) succeeds, to_string of the EmojiId it returns is
\* exactly S.
C3_RoundTripString ==
    (input.kind = "str" /\ pc = "done" /\ result[1].tag = "Ok") =>
        /\ rendered # None
        /\ rendered[1] = input.val

C3_Witness ==
    /\ input.kind = "str"
    /\ pc = "done"
    /\ result[1].tag = "Ok"
    /\ rendered # None
    /\ Len(chars(input.val)) >= 2

\* C4: BYTE_TO_EMOJI has exactly 256 entries and no two entries at different
\* indices are the same char: the glyph of any byte an EmojiId holds stands
\* at no other index of the table.
C4_NoDuplicateEmoji ==
    /\ Len(BYTE_TO_EMOJI) = 256
    /\ emoji_id # None =>
           \A k \in DOMAIN as_bytes(emoji_id[1]) :
               \A j \in DOMAIN BYTE_TO_EMOJI :
                   j # as_bytes(emoji_id[1])[k] + 1 =>
                       BYTE_TO_EMOJI[j]
                           # BYTE_TO_EMOJI[as_bytes(emoji_id[1])[k] + 1]

C4_Witness ==
    /\ emoji_id # None
    /\ as_bytes(emoji_id[1]) = AllBytes
    /\ cell = "complete"
    /\ DOMAIN EMOJI_TO_BYTE = Alphabet

\* C5: to_string of [0, 1, ..., 255] is the emojibet concatenated in index
\* order and from_str of that string gives the bytes [0, 1, ..., 255]; in
\* general the k-th glyph rendered is BYTE_TO_EMOJI[B[k]] and the k-th byte
\* decoded is the emojibet index of the k-th char.
C5_Canonical ==
    /\ (input.kind = "bytes" /\ rendered # None) =>
           /\ input.val = AllBytes => rendered[1] = CanonicalString
           /\ LET cs == chars(rendered[1])
              IN  /\ DOMAIN cs = DOMAIN input.val
                  /\ \A k \in DOMAIN cs :
                         cs[k] = BYTE_TO_EMOJI[input.val[k] + 1]
    /\ (input.kind = "str" /\ result # None /\ result[1].tag = "Ok") =>
           /\ input.val = CanonicalString => ResultBytes = AllBytes
           /\ LET cs == chars(input.val)
              IN  /\ DOMAIN ResultBytes = DOMAIN cs
                  /\ \A k \in DOMAIN cs :
                         BYTE_TO_EMOJI[ResultBytes[k] + 1] = cs[k]
    /\ (input.kind = "bytes" /\ input.val = AllBytes /\ result # None) =>
           result[1] = Ok(From(AllBytes))

C5_Witness ==
    /\ input.kind = "bytes"
    /\ input.val = AllBytes
    /\ pc = "done"
    /\ rendered[1] = CanonicalString
    /\ ResultBytes = AllBytes

\* C6: to_string is total and keeps the length: every byte indexes inside the
\* emojibet, and the rendering has as many chars as the EmojiId has bytes.
C6_EncodeLength ==
    /\ \A b \in 0..u8_MAX : b + 1 \in DOMAIN BYTE_TO_EMOJI
    /\ (input.kind = "bytes" /\ emoji_id # None) =>
           \A k \in DOMAIN as_bytes(emoji_id[1]) :
               as_bytes(emoji_id[1])[k] + 1 \in DOMAIN BYTE_TO_EMOJI
    /\ (input.kind = "bytes" /\ rendered # None) =>
           Len(chars(rendered[1])) = Len(input.val)

C6_Witness ==
    /\ input.kind = "bytes"
    /\ rendered # None
    /\ Len(input.val) = 2
    /\ 0 \in {input.val[k] : k \in DOMAIN input.val}
    /\ Len(rendered[1]) > 2

\* C7: the empty byte sequence renders as the empty string, and from_str("")
\* is Ok with an EmojiId of zero bytes, not Err(InvalidEmoji).
C7_Empty ==
    /\ (input.kind = "bytes" /\ input.val = << >> /\ rendered # None) =>
           rendered[1] = << >>
    /\ (result # None /\ FromStrArg = << >>) =>
           /\ result[1].tag = "Ok"
           /\ ResultBytes = << >>

C7_Witness ==
    /\ input.kind = "str"
    /\ input.val = << >>
    /\ result # None
    /\ result[1].tag = "Ok"

C8_Once ==
    /\ init_count <= 1
    /\ cell = "complete" => init_count = 1
    /\ \A t \in Threads :
           tpc[t] = "get" =>
               /\ cell = "complete"
               /\ Cardinality(DOMAIN EMOJI_TO_BYTE) = DICT_SIZE

C8_Frozen ==
    cell = "complete" =>
        /\ cell' = "complete"
        /\ EMOJI_TO_BYTE' = EMOJI_TO_BYTE

\* C8: with threads racing on their first from_str, the closure building the
\* reverse emojibet is entered once, a lookup only ever reads the complete
\* 256-entry map, and once the cell is complete the map is never written.
C8_LazyOnce == [](C8_Once) /\ [][C8_Frozen]_vars

C8_Witness ==
    \E t1, t2 \in Threads :
        /\ t1 # t2
        /\ tpc[t1] = "init"
        /\ mi[t1] > 0
        /\ mi[t1] < DICT_SIZE
        /\ tpc[t2] = "deref"

C10_ExactInverse ==
    cell = "complete" =>
        /\ Cardinality(DOMAIN EMOJI_TO_BYTE) = 256
        /\ \A i \in 0..u8_MAX :
               get(EMOJI_TO_BYTE, BYTE_TO_EMOJI[i + 1]) = Some(i)
        /\ \A c \in Foreign \cup {0} : get(EMOJI_TO_BYTE, c) = None

C10_Witness ==
    /\ cell = "complete"
    /\ input.kind = "str"
    /\ result # None
    /\ result[1].tag = "Err"

=============================================================================
